---- MODULE Spec2Model ----
(***************************************************************************)
(* Model of the heartbeat supervision loop: HeartbeatMonitor               *)
(* (src/src/monitor.py) and ProcessManager (src/src/process_manager.py).   *)
(* Time is wall-clock time in milliseconds.  A worker process is an entry  *)
(* of procs, identified by its index (its pid).                            *)
(***************************************************************************)
EXTENDS Integers, Sequences, FiniteSets, TLC

\* ---------------------------------------------------------------- constants
TIMEOUT_THRESHOLD == 500
HEARTBEAT_INTERVAL == 50
TICK_MS == 100
GRACE_MS == 5000
SESSION_SECONDS == 1
DEFAULT_DURATION == 60

\* ------------------------------------------------------------------- bounds
MaxProcs == 3
MaxQueue == 2
MaxTime == 6200
MaxPure == 620
MaxPureLast == 20
MaxSessions == 1
LoopSeconds == 2
MaxDuration == 120

\* Granularity of the modelled clock: one tick of the loop.
Quantum == TICK_MS

\* Absent optional value of an integer field (Python None).
None == -1
\* Absent worker command (Python None).
NoCmd == "None"
Cmds == {"cmdA", "cmdB"}

VARIABLES
    worker_cmd,        \* ProcessManager.worker_cmd
    worker_process,    \* ProcessManager.worker_process: a pid or None
    monitor,           \* ProcessManager.monitor is set
    duration,          \* ProcessManager.duration (seconds)
    last_heartbeat,    \* HeartbeatMonitor._last_heartbeat: a time or None
    start_time,        \* HeartbeatMonitor._start_time: a time or None
    mon_pm,            \* HeartbeatMonitor._process_manager is set
    mon_pm_public,     \* attribute HeartbeatMonitor.process_manager is set
    mon_duration,      \* HeartbeatMonitor._duration (seconds)
    sock,              \* HeartbeatMonitor._heartbeat_socket: "none", "open", "closed"
    procs,             \* every process launched so far, by pid
    queue,             \* number of unread datagrams on the heartbeat port
    now,               \* the wall clock, ms
    pc,                \* position of the driving program
    wakeAt,            \* time at which the loop's sleep ends
    exitStatus,        \* exit status of the orchestrator, None while running
    op,                \* the last operation that ran
    calls,             \* the OS-level calls the last operation made, in order
    raised,            \* the exception the last operation raised, or "none"
    ret,               \* the value the last operation returned
    sessions,          \* number of sessions the driving program has started
    old_heartbeat,     \* _last_heartbeat as it was before the last operation
    launched_at,       \* time the last successful launch returned, or None
    last_arrival       \* time the last timed datagram arrived, or None

vars == <<worker_cmd, worker_process, monitor, duration, last_heartbeat,
          start_time, mon_pm, mon_pm_public, mon_duration, sock, procs,
          queue, now, pc, wakeAt, exitStatus, op, calls, raised, ret,
          sessions, old_heartbeat, launched_at, last_arrival>>

pmVars == <<worker_cmd, worker_process, monitor, duration>>
monVars == <<last_heartbeat, start_time, mon_pm, mon_pm_public, mon_duration, sock>>
osVars == <<procs, queue, now>>
ctlVars == <<pc, wakeAt, exitStatus, sessions>>

\* ------------------------------------------------------------ OS processes
\* A process: returncode "None" while it runs.
NewProc == [returncode |-> "None"]

Pids(P) == 1..Len(P)

\* Popen.poll(): the exit status, "None" while the process runs.
poll(P, p) == P[p].returncode

Exit(P, p, rc) == [P EXCEPT ![p].returncode = rc]

Alive(P) == {p \in Pids(P) : P[p].returncode = "None"}

\* ------------------------------------------------- handler state records
\* The part of the state a handler can read or change, as one record.
Cur == [worker_cmd |-> worker_cmd, worker_process |-> worker_process,
        monitor |-> monitor, last_heartbeat |-> last_heartbeat,
        start_time |-> start_time, mon_pm |-> mon_pm,
        mon_pm_public |-> mon_pm_public, sock |-> sock, procs |-> procs,
        queue |-> queue, now |-> now, calls |-> <<>>, raised |-> "none",
        ret |-> "None"]

Install(s) ==
    /\ worker_cmd' = s.worker_cmd
    /\ worker_process' = s.worker_process
    /\ monitor' = s.monitor
    /\ last_heartbeat' = s.last_heartbeat
    /\ start_time' = s.start_time
    /\ mon_pm' = s.mon_pm
    /\ mon_pm_public' = s.mon_pm_public
    /\ sock' = s.sock
    /\ procs' = s.procs
    /\ queue' = s.queue
    /\ now' = s.now
    /\ calls' = s.calls
    /\ raised' = s.raised
    /\ ret' = s.ret

Call(s, c) == [s EXCEPT !.calls = Append(@, c)]
Raise(s, e) == [s EXCEPT !.raised = e]
Return(s, v) == [s EXCEPT !.ret = v]

\* Run F on every outcome of S that did not raise; a raised outcome stays.
Then(S, F(_)) == UNION {IF s.raised = "none" THEN F(s) ELSE {s} : s \in S}

\* d ms pass while the caller is blocked; running workers may send datagrams.
Elapse(s, d) ==
    IF d > 0 /\ Alive(s.procs) # {}
    THEN {[s EXCEPT !.now = @ + d, !.queue = q] : q \in s.queue..MaxQueue}
    ELSE {[s EXCEPT !.now = @ + d]}

\* Time a process takes to exit once it exits within a wait.
ExitDelays == {0, Quantum}

\* ------------------------------------------------------- ProcessManager
\* The step taken when the grace-period wait timed out.
force_kill(s, p) ==
    LET k == Call(s, "os.kill(SIGTERM)")
        gone == [k EXCEPT !.procs = Exit(@, p, "-15")]
    IN  {k, gone, Raise(k, "OSError"), Raise(gone, "OSError")}

\* A bug to test the claims against: the handle is not polled first.
terminate_process_unpolled(s, p) ==
    LET s1 == Call(Call(s, "terminate"), "wait(5)") IN
    IF poll(s.procs, p) # "None" THEN {s1}
    ELSE UNION {{[e EXCEPT !.procs = Exit(@, p, "-15")]
                    : e \in Elapse(s1, d)} : d \in ExitDelays}
         \cup Then(Elapse(s1, GRACE_MS), LAMBDA e : force_kill(e, p))

\* A bug to test the claims against: the kill step also follows a clean exit.
terminate_process_escalates(s, p) ==
    LET s0 == Call(s, "poll") IN
    IF poll(s.procs, p) # "None" THEN {s0}
    ELSE
      LET s1 == Call(Call(s0, "terminate"), "wait(5)")
          exited == UNION {{[e EXCEPT !.procs = Exit(@, p, "-15")]
                               : e \in Elapse(s1, d)} : d \in ExitDelays}
      IN  Then(exited \cup Elapse(s1, GRACE_MS),
               LAMBDA e : force_kill(e, p))

terminate_process(s, p) ==
    LET s0 == Call(s, "poll") IN
    IF poll(s.procs, p) # "None" THEN {s0}
    ELSE
      \* SIGTERM is sent; the process exits within the grace period, or it
      \* ignores the signal (or is slow to act on it) and the wait expires.
      LET s1 == Call(Call(s0, "terminate"), "wait(5)")
          exited == UNION {{[e EXCEPT !.procs = Exit(@, p, "-15")]
                               : e \in Elapse(s1, d)} : d \in ExitDelays}
          expired == Then(Elapse(s1, GRACE_MS),
                          LAMBDA e : force_kill(e, p))
      IN  exited \cup expired

\* A bug to test the claims against: the exit status is tested for falsity.
is_process_running_falsy(s) ==
    IF s.worker_process = None THEN FALSE
    ELSE poll(s.procs, s.worker_process) \in {"None", "0"}

is_process_running(s) ==
    IF s.worker_process = None THEN FALSE
    ELSE poll(s.procs, s.worker_process) = "None"

\* subprocess.Popen(cmd, ...): a new process, or the launch raises.
Popen(s) ==
    IF Len(s.procs) >= MaxProcs THEN {}
    ELSE {[Call(s, "Popen") EXCEPT !.procs = Append(@, NewProc),
                                   !.worker_process = Len(s.procs) + 1],
          Raise(Call(s, "Popen"), "OSError")}

\* The worker may exit on its own between two polls of its handle.
MayExit(s, p) ==
    IF poll(s.procs, p) = "None"
    THEN {s, [s EXCEPT !.procs = Exit(@, p, "1")]}
    ELSE {s}

start_process(s, cmd) ==
    Popen([s EXCEPT !.worker_cmd = cmd])

\* Terminate the current worker if there is one and it is running.
terminate_if_running(s) ==
    IF s.worker_process # None
    THEN IF is_process_running(s)
         THEN Then(MayExit(Call(s, "poll"), s.worker_process),
                   LAMBDA e : terminate_process(e, s.worker_process))
         ELSE {Call(s, "poll")}
    ELSE {s}

\* A bug to test the claims against: the stored command is not checked.
restart_process_unchecked(s) ==
    Then(terminate_if_running(Call(s, "restart_process")),
         LAMBDA e : Popen(e))

restart_process(s) ==
    IF s.worker_cmd = NoCmd
    THEN {Raise(Call(s, "restart_process"), "ValueError")}
    ELSE Then(terminate_if_running(Call(s, "restart_process")),
              LAMBDA e : Popen(e))

\* The attributes a HeartbeatMonitor object has: those its constructor sets,
\* and process_manager once the orchestrator has assigned it.
hasattr(s, a) ==
    \/ a \in {"_timeout_threshold", "_last_heartbeat", "_heartbeat_socket",
              "_process_manager", "_duration", "_start_time"}
    \/ a = "process_manager" /\ s.mon_pm_public

\* A bug to test the claims against: the worker is not terminated.
shutdown_system_keeps_worker(s) ==
    LET e == Call(s, "shutdown_system") IN
    IF e.monitor /\ hasattr(e, "heartbeat_socket")
    THEN {[Call(e, "close") EXCEPT !.sock = "closed"]}
    ELSE {e}

shutdown_system(s) ==
    Then(terminate_if_running(Call(s, "shutdown_system")),
         LAMBDA e : IF e.monitor /\ hasattr(e, "heartbeat_socket")
                    THEN {[Call(e, "close") EXCEPT !.sock = "closed"]}
                    ELSE {e})

\* ----------------------------------------------------- HeartbeatMonitor
\* Bugs to test the claims against: a read does not set the timestamp; the
\* timestamp is set on a failed read too.
receive_heartbeat_no_stamp(s) ==
    LET r == Call(s, "recvfrom") IN
    IF s.sock = "open" /\ s.queue > 0
    THEN {[r EXCEPT !.queue = @ - 1]}
    ELSE {r}

receive_heartbeat_stamps(s) ==
    LET r == Call(s, "recvfrom") IN
    IF s.sock = "open" /\ s.queue > 0
    THEN {[r EXCEPT !.queue = @ - 1, !.last_heartbeat = s.now]}
    ELSE {[r EXCEPT !.last_heartbeat = s.now]}

\* One non-blocking recvfrom; socket.error (no data, closed socket) is caught.
receive_heartbeat(s) ==
    LET r == Call(s, "recvfrom") IN
    IF s.sock = "open" /\ s.queue > 0
    THEN {[r EXCEPT !.queue = @ - 1, !.last_heartbeat = s.now]}
    ELSE {r}

\* Bugs to test the claims against: a non-strict comparison; no test of None.
check_timeout_nonstrict(lh, t) ==
    IF lh # None THEN (t - lh) >= TIMEOUT_THRESHOLD ELSE FALSE

check_timeout_unguarded(lh, t) ==
    (t - lh) > TIMEOUT_THRESHOLD

\* lh: the last-heartbeat timestamp or None; t: datetime.now(); both in ms.
check_timeout(lh, t) ==
    IF lh # None THEN (t - lh) > TIMEOUT_THRESHOLD ELSE FALSE

\* A bug to test the claims against: the timestamp is taken before the restart.
monitor_restart_process_early(s) ==
    IF s.mon_pm
    THEN Then(restart_process(s),
              LAMBDA e : {[e EXCEPT !.last_heartbeat = s.now]})
    ELSE {Call(s, "logger.error")}

\* Bugs to test the claims against: the restart empties the channel; the
\* timestamp is set before the supervisor is called; the timestamp is cleared.
monitor_restart_process_flushes(s) ==
    IF s.mon_pm
    THEN Then(restart_process(s),
              LAMBDA e : {[e EXCEPT !.last_heartbeat = e.now, !.queue = 0]})
    ELSE {Call(s, "logger.error")}

monitor_restart_process_stamps_first(s) ==
    IF s.mon_pm
    THEN restart_process([s EXCEPT !.last_heartbeat = s.now])
    ELSE {Call(s, "logger.error")}

monitor_restart_process_clears(s) ==
    IF s.mon_pm
    THEN Then(restart_process(s),
              LAMBDA e : {[e EXCEPT !.last_heartbeat = None]})
    ELSE {Call(s, "logger.error")}

\* A bug to test the claims against: a missing supervisor raises.
monitor_restart_process_raises(s) ==
    IF s.mon_pm
    THEN Then(restart_process(s),
              LAMBDA e : {[e EXCEPT !.last_heartbeat = e.now]})
    ELSE {Raise(s, "ValueError")}

monitor_restart_process(s) ==
    IF s.mon_pm
    THEN Then(restart_process(s),
              LAMBDA e : {[e EXCEPT !.last_heartbeat = e.now]})
    ELSE {Call(s, "logger.error")}

\* A bug to test the claims against: the supervisor reference is not checked.
start_monitoring_unchecked(s, cmd) ==
    Then(start_process(s, cmd),
         LAMBDA e : {[e EXCEPT !.last_heartbeat = e.now,
                               !.start_time = e.now]})

\* start_monitoring up to the loop.
start_monitoring(s, cmd) ==
    IF ~s.mon_pm THEN {Raise(s, "ValueError")}
    ELSE Then(start_process(s, cmd),
              LAMBDA e : {[e EXCEPT !.last_heartbeat = e.now,
                                    !.start_time = e.now]})

\* Bugs to test the claims against: the timeout is evaluated on the timestamp
\* from before the read; the duration test is not strict.
loop_iteration_check_first(s, dur) ==
    IF s.now - s.start_time > dur * 1000
    THEN Then(shutdown_system(s), LAMBDA e : {Return(e, "break")})
    ELSE Then(receive_heartbeat(s),
              LAMBDA e : IF check_timeout(s.last_heartbeat, s.now)
                         THEN monitor_restart_process(e)
                         ELSE {e})

\* A bug to test the claims against: a worker that has exited is restarted
\* without waiting for the timeout.
loop_iteration_status(s, dur) ==
    IF s.now - s.start_time > dur * 1000
    THEN Then(shutdown_system(s), LAMBDA e : {Return(e, "break")})
    ELSE Then(receive_heartbeat(s),
              LAMBDA e : IF check_timeout(e.last_heartbeat, e.now)
                            \/ ~is_process_running(e)
                         THEN monitor_restart_process(e)
                         ELSE {e})

\* A bug to test the claims against: the loop goes on after the shutdown.
loop_iteration_no_break(s, dur) ==
    IF s.now - s.start_time > dur * 1000
    THEN shutdown_system(s)
    ELSE Then(receive_heartbeat(s),
              LAMBDA e : IF check_timeout(e.last_heartbeat, e.now)
                         THEN monitor_restart_process(e)
                         ELSE {e})

loop_iteration_nonstrict(s, dur) ==
    IF s.now - s.start_time >= dur * 1000
    THEN Then(shutdown_system(s), LAMBDA e : {Return(e, "break")})
    ELSE Then(receive_heartbeat(s),
              LAMBDA e : IF check_timeout(e.last_heartbeat, e.now)
                         THEN monitor_restart_process(e)
                         ELSE {e})

\* One iteration of the loop, without its sleep; ret = "break" ends the loop.
loop_iteration(s, dur) ==
    IF s.now - s.start_time > dur * 1000
    THEN Then(shutdown_system(s), LAMBDA e : {Return(e, "break")})
    ELSE Then(receive_heartbeat(s),
              LAMBDA e : IF check_timeout(e.last_heartbeat, e.now)
                         THEN monitor_restart_process(e)
                         ELSE {e})

\* ------------------------------------------------------------ orchestrator
\* A bug to test the claims against: the duration is stored as given.
monitor_duration_as_given(d) == d

\* The duration a new monitor stores: duration or DEFAULT_DURATION.
monitor_duration(d) == IF d = 0 THEN DEFAULT_DURATION ELSE d

\* HeartbeatMonitor(duration): the fields of a new monitor.
HeartbeatMonitor(s) ==
    [s EXCEPT !.last_heartbeat = None, !.start_time = None,
              !.mon_pm = FALSE, !.mon_pm_public = FALSE, !.sock = "open"]

\* start_system up to the loop of start_monitoring: the monitor is created,
\* the supervisor is stored in its attribute process_manager, and
\* start_monitoring is called.
start_system(s, cmd) ==
    LET m == [HeartbeatMonitor(s) EXCEPT !.monitor = TRUE,
                                         !.mon_pm_public = TRUE]
    IN  start_monitoring(Call(m, "start_system"), cmd)

\* The states in which a KeyboardInterrupt can reach start_system before
\* start_monitoring is called: before and after the monitor is stored.
interrupted(s) ==
    {Call(Call(m, "start_system"), "KeyboardInterrupt")
        : m \in {s, [HeartbeatMonitor(s) EXCEPT !.monitor = TRUE],
                    [HeartbeatMonitor(s) EXCEPT !.monitor = TRUE,
                                                !.mon_pm_public = TRUE]}}

\* main of the orchestrator up to the loop: an error of start_system is
\* caught, shutdown_system runs and the program exits with status 1; a
\* KeyboardInterrupt is caught, shutdown_system runs and main returns
\* (status 0).  An error of shutdown_system itself ends the program with
\* status 1.
main(s, cmd) ==
    UNION {IF e.raised = "none" THEN {e}
           ELSE {Return(x, "exit(1)")
                    : x \in shutdown_system([e EXCEPT !.raised = "none"])}
              : e \in start_system(s, cmd)}
    \cup UNION {{Return(x, IF x.raised = "none" THEN "exit(0)" ELSE "exit(1)")
                    : x \in shutdown_system(i)} : i \in interrupted(s)}

\* ---------------------------------------------------------------- actions
\* Install one outcome of a handler; the clock stays within the horizon.
Do(S, name) ==
    \E s \in S :
        /\ s.now <= MaxTime
        /\ Install(s)
        /\ op' = name
        /\ old_heartbeat' = last_heartbeat
        /\ launched_at' = IF s.raised = "none" /\ Len(s.procs) > Len(procs)
                          THEN s.now ELSE launched_at
        \* datagrams sent while the operation was blocked in a wait
        /\ last_arrival' = IF last_arrival # None /\ s.queue > queue
                           THEN s.now ELSE last_arrival

Idle == pc = "api"

StartProcess(cmd) ==
    /\ Idle
    /\ Do(start_process(Cur, cmd), <<"start_process", cmd>>)
    /\ UNCHANGED <<duration, mon_duration, pc, wakeAt, exitStatus, sessions>>

RestartProcess ==
    /\ Idle
    /\ Do(restart_process(Cur), <<"restart_process">>)
    /\ UNCHANGED <<duration, mon_duration, pc, wakeAt, exitStatus, sessions>>

TerminateProcess(p) ==
    /\ Idle
    /\ Do(terminate_process(Cur, p), <<"terminate_process", p>>)
    /\ UNCHANGED <<duration, mon_duration, pc, wakeAt, exitStatus, sessions>>

ShutdownSystem ==
    /\ Idle
    /\ Do(shutdown_system(Cur), <<"shutdown_system">>)
    /\ UNCHANGED <<duration, mon_duration, pc, wakeAt, exitStatus, sessions>>

\* is_process_running called on any handle; the handle is polled if present.
IsProcessRunning ==
    /\ pc = "handle"
    /\ Do({Return(IF worker_process = None THEN Cur ELSE Call(Cur, "poll"),
                  IF is_process_running(Cur) THEN "True" ELSE "False")},
          <<"is_process_running">>)
    /\ UNCHANGED <<duration, mon_duration, pc, wakeAt, exitStatus, sessions>>

\* HeartbeatMonitor(duration = d): a monitor is constructed.
Construct(d) ==
    /\ pc = "new"
    /\ Do({HeartbeatMonitor(Cur)}, <<"HeartbeatMonitor", d>>)
    /\ mon_duration' = monitor_duration(d)
    /\ UNCHANGED <<duration, pc, wakeAt, exitStatus, sessions>>

\* start_system called on a supervisor that has no monitor yet.
StartSystem(cmd) ==
    /\ Idle
    /\ ~monitor
    /\ Do(start_system(Cur, cmd), <<"start_system", cmd>>)
    /\ mon_duration' = monitor_duration(duration)
    /\ pc' = IF raised' = "none" THEN "loop" ELSE "api"
    /\ wakeAt' = IF raised' = "none" THEN now' ELSE wakeAt
    /\ UNCHANGED <<duration, exitStatus, sessions>>

\* The entry point: main runs on the supervisor it has just constructed.
MainEntry(cmd) ==
    /\ pc \in {"api", "main"}
    /\ op = <<"init">>
    /\ Do(main(Cur, cmd), <<"main", cmd>>)
    /\ mon_duration' = IF monitor' THEN monitor_duration(duration)
                       ELSE mon_duration
    /\ pc' = IF ret' \in {"exit(0)", "exit(1)"} THEN "exited" ELSE "loop"
    /\ exitStatus' = IF ret' = "exit(1)" THEN 1
                     ELSE IF ret' = "exit(0)" THEN 0 ELSE None
    /\ wakeAt' = IF ret' \in {"exit(0)", "exit(1)"} THEN wakeAt ELSE now'
    /\ UNCHANGED <<duration, sessions>>

\* monitor._process_manager = manager (src/src/monitor.py main).
SetProcessManager ==
    /\ Idle
    /\ ~mon_pm
    /\ Do({[Cur EXCEPT !.mon_pm = TRUE]}, <<"set_process_manager">>)
    /\ UNCHANGED <<duration, mon_duration, pc, wakeAt, exitStatus, sessions>>

ReceiveHeartbeat ==
    /\ Idle
    /\ Do(receive_heartbeat(Cur), <<"receive_heartbeat">>)
    /\ UNCHANGED <<duration, mon_duration, pc, wakeAt, exitStatus, sessions>>

CheckTimeout ==
    /\ pc \in {"api", "pure"}
    /\ Do({Return(Cur, IF check_timeout(last_heartbeat, now)
                       THEN "True" ELSE "False")},
          <<"check_timeout">>)
    /\ UNCHANGED <<duration, mon_duration, pc, wakeAt, exitStatus, sessions>>

MonitorRestartProcess ==
    /\ Idle
    /\ Do(monitor_restart_process(Cur), <<"monitor.restart_process">>)
    /\ UNCHANGED <<duration, mon_duration, pc, wakeAt, exitStatus, sessions>>

\* start_monitoring is called: it raises, or enters its loop.
StartMonitoring(cmd) ==
    /\ Idle
    /\ sessions < MaxSessions
    /\ sessions' = sessions + 1
    /\ Do(start_monitoring(Cur, cmd), <<"start_monitoring", cmd>>)
    /\ pc' = IF raised' = "none" THEN "loop" ELSE "api"
    /\ wakeAt' = now'
    /\ UNCHANGED <<duration, mon_duration, exitStatus>>

\* main of src/src/monitor.py: the monitor is given the supervisor and
\* start_monitoring is called, once.
StandaloneMain(cmd) ==
    /\ pc = "main"
    /\ sessions' = sessions + 1
    /\ Do(start_monitoring([Cur EXCEPT !.mon_pm = TRUE], cmd),
          <<"start_monitoring", cmd>>)
    /\ pc' = IF raised' = "none" THEN "loop" ELSE "api"
    /\ wakeAt' = now'
    /\ UNCHANGED <<duration, mon_duration, exitStatus>>

\* One iteration of the loop of start_monitoring, up to its sleep.
Tick ==
    /\ pc = "loop"
    /\ now >= wakeAt
    /\ Do(loop_iteration(Cur, mon_duration), <<"tick">>)
    /\ pc' = IF raised' # "none" \/ ret' = "break" THEN "api" ELSE "loop"
    /\ wakeAt' = now' + TICK_MS
    /\ UNCHANGED <<duration, mon_duration, exitStatus, sessions>>

\* ------------------------------------------------------------ environment
\* A step of the environment is no operation of the program: the record of
\* the last operation is cleared.
Env ==
    /\ op' = <<"env">>
    /\ calls' = <<>>
    /\ raised' = "none"
    /\ ret' = "None"
    /\ old_heartbeat' = None
    /\ launched_at' = launched_at

\* A running worker sends one heartbeat datagram; a full buffer drops it.
WorkerSend(p) ==
    /\ p \in Alive(procs)
    /\ queue < MaxQueue
    /\ queue' = queue + 1
    /\ Env
    /\ last_arrival' = last_arrival
    /\ UNCHANGED <<pmVars, monVars, procs, now, ctlVars>>

\* The same step, with the arrival time of the datagram recorded.
WorkerHeartbeat(p) ==
    /\ p \in Alive(procs)
    /\ queue < MaxQueue
    /\ queue' = queue + 1
    /\ Env
    /\ last_arrival' = now
    /\ UNCHANGED <<pmVars, monVars, procs, now, ctlVars>>

\* A running worker exits on its own (crash or normal end).
WorkerExit(p) ==
    /\ p \in Alive(procs)
    /\ procs' = Exit(procs, p, "1")
    /\ Env
    /\ last_arrival' = last_arrival
    /\ UNCHANGED <<pmVars, monVars, queue, now, ctlVars>>

\* Time passes while the loop sleeps; the sleep ends exactly at wakeAt.
Advance ==
    /\ pc = "loop"
    /\ now < wakeAt
    /\ now + Quantum <= MaxTime
    /\ now' = now + Quantum
    /\ Env
    /\ last_arrival' = last_arrival
    /\ UNCHANGED <<pmVars, monVars, procs, queue, ctlVars>>

\* ---------------------------------------------------------- specification
\* Both objects constructed, not wired, no call made yet.
Init ==
    /\ worker_cmd = NoCmd
    /\ worker_process = None
    /\ monitor = FALSE
    /\ duration = SESSION_SECONDS
    /\ last_heartbeat = None
    /\ start_time = None
    /\ mon_pm = FALSE
    /\ mon_pm_public = FALSE
    /\ mon_duration = SESSION_SECONDS
    /\ sock = "open"
    /\ procs = <<>>
    /\ queue = 0
    /\ now = 0
    /\ pc = "api"
    /\ wakeAt = 0
    /\ exitStatus = None
    /\ op = <<"init">>
    /\ calls = <<>>
    /\ raised = "none"
    /\ ret = "None"
    /\ sessions = 0
    /\ old_heartbeat = None
    /\ launched_at = None
    /\ last_arrival = None

\* The supervisor driven by any sequence of calls, its workers exiting at will.
Next ==
    \/ \E cmd \in Cmds : StartProcess(cmd)
    \/ RestartProcess
    \/ \E p \in Pids(procs) : TerminateProcess(p)
    \/ ShutdownSystem
    \/ \E cmd \in Cmds : StartSystem(cmd)
    \/ \E cmd \in Cmds : MainEntry(cmd)
    \/ \E p \in Pids(procs) : WorkerExit(p)

Spec == Init /\ [][Next]_vars

\* The monitor driven by calls of its operations and by one or more sessions
\* of start_monitoring, with the workers and the clock as environment.
NextMon ==
    \/ SetProcessManager
    \/ ReceiveHeartbeat
    \/ CheckTimeout
    \/ MonitorRestartProcess
    \/ \E cmd \in Cmds : StartMonitoring(cmd)
    \/ Tick
    \/ \E p \in Pids(procs) : WorkerSend(p)
    \/ \E p \in Pids(procs) : WorkerExit(p)
    \/ Advance

SpecMon == Init /\ [][NextMon]_vars

\* The programs (main of src/src/monitor.py: a monitor wired to a supervisor
\* runs start_monitoring; main of src/src/process_manager.py), with the
\* workers and the clock as environment.
InitLoop ==
    /\ worker_cmd = NoCmd
    /\ worker_process = None
    /\ monitor = FALSE
    /\ duration = LoopSeconds
    /\ last_heartbeat = None
    /\ start_time = None
    /\ mon_pm = FALSE
    /\ mon_pm_public = FALSE
    /\ mon_duration = LoopSeconds
    /\ sock = "open"
    /\ procs = <<>>
    /\ queue = 0
    /\ now = 0
    /\ pc = "main"
    /\ wakeAt = 0
    /\ exitStatus = None
    /\ op = <<"init">>
    /\ calls = <<>>
    /\ raised = "none"
    /\ ret = "None"
    /\ sessions = 0
    /\ old_heartbeat = None
    /\ launched_at = None
    /\ last_arrival = None

NextLoop ==
    \/ \E cmd \in Cmds : StandaloneMain(cmd)
    \/ \E cmd \in Cmds : MainEntry(cmd)
    \/ Tick
    \/ \E p \in Pids(procs) : WorkerHeartbeat(p)
    \/ \E p \in Pids(procs) : WorkerExit(p)
    \/ Advance

SpecLoop == InitLoop /\ [][NextLoop]_vars

\* check_timeout applied to any timestamp and any clock value.
InitPure ==
    /\ worker_cmd = NoCmd
    /\ worker_process = None
    /\ monitor = FALSE
    /\ duration = SESSION_SECONDS
    /\ last_heartbeat \in {None} \cup 0..MaxPureLast
    /\ start_time = None
    /\ mon_pm = FALSE
    /\ mon_pm_public = FALSE
    /\ mon_duration = SESSION_SECONDS
    /\ sock = "open"
    /\ procs = <<>>
    /\ queue = 0
    /\ now \in 0..MaxPure
    /\ pc = "pure"
    /\ wakeAt = 0
    /\ exitStatus = None
    /\ op = <<"init">>
    /\ calls = <<>>
    /\ raised = "none"
    /\ ret = "None"
    /\ sessions = 0
    /\ old_heartbeat = None
    /\ launched_at = None
    /\ last_arrival = None

NextPure == CheckTimeout

SpecCheckTimeout == InitPure /\ [][NextPure]_vars

\* is_process_running applied to a supervisor with any handle: none, or
\* one of up to MaxProcs processes, each running or exited with any status.
ExitCodes == {"0", "1", "-15"}

Handles ==
    UNION {[1..n -> [returncode : {"None"} \cup ExitCodes]] : n \in 0..MaxProcs}

InitHandle ==
    /\ worker_cmd = NoCmd
    /\ procs \in Handles
    /\ worker_process \in {None} \cup Pids(procs)
    /\ monitor = FALSE
    /\ duration = SESSION_SECONDS
    /\ last_heartbeat = None
    /\ start_time = None
    /\ mon_pm = FALSE
    /\ mon_pm_public = FALSE
    /\ mon_duration = SESSION_SECONDS
    /\ sock = "open"
    /\ queue = 0
    /\ now = 0
    /\ pc = "handle"
    /\ wakeAt = 0
    /\ exitStatus = None
    /\ op = <<"init">>
    /\ calls = <<>>
    /\ raised = "none"
    /\ ret = "None"
    /\ sessions = 0
    /\ old_heartbeat = None
    /\ launched_at = None
    /\ last_arrival = None

NextHandle == IsProcessRunning

SpecIsRunning == InitHandle /\ [][NextHandle]_vars

\* The constructor of the monitor applied to any duration.
Durations == -1..MaxDuration

InitNew ==
    /\ worker_cmd = NoCmd
    /\ worker_process = None
    /\ monitor = FALSE
    /\ duration = SESSION_SECONDS
    /\ last_heartbeat = None
    /\ start_time = None
    /\ mon_pm = FALSE
    /\ mon_pm_public = FALSE
    /\ mon_duration = SESSION_SECONDS
    /\ sock = "none"
    /\ procs = <<>>
    /\ queue = 0
    /\ now = 0
    /\ pc = "new"
    /\ wakeAt = 0
    /\ exitStatus = None
    /\ op = <<"init">>
    /\ calls = <<>>
    /\ raised = "none"
    /\ ret = "None"
    /\ sessions = 0
    /\ old_heartbeat = None
    /\ launched_at = None
    /\ last_arrival = None

NextNew == \E d \in Durations : Construct(d)

SpecConstruct == InitNew /\ [][NextNew]_vars

TypeOK ==
    /\ worker_cmd \in Cmds \cup {NoCmd}
    /\ worker_process \in {None} \cup Pids(procs)
    /\ last_heartbeat \in {None} \cup 0..MaxTime
    /\ Len(procs) <= MaxProcs
    /\ queue \in 0..MaxQueue
    /\ now \in 0..MaxTime
    /\ pc \in {"api", "loop", "pure", "main", "exited", "handle", "new"}
    /\ exitStatus \in {None, 0, 1}

\* -------------------------------------------------------------- properties
Count(c, seq) == Cardinality({i \in 1..Len(seq) : seq[i] = c})
Has(c, seq) == \E i \in 1..Len(seq) : seq[i] = c

\* C1: with the timestamp set, check_timeout returns true exactly when the
\* elapsed time is strictly greater than the threshold; equal returns false.
C1_StrictComparison ==
    (op[1] = "check_timeout" /\ last_heartbeat # None) =>
        /\ (now - last_heartbeat > TIMEOUT_THRESHOLD) => ret = "True"
        /\ (now - last_heartbeat <= TIMEOUT_THRESHOLD) => ret = "False"

C1_Witness ==
    /\ op[1] = "check_timeout"
    /\ last_heartbeat # None
    /\ now - last_heartbeat = TIMEOUT_THRESHOLD
    /\ ret = "False"

\* C2: with the timestamp absent, check_timeout returns false at any time.
C2_AbsentNeverTimesOut ==
    (op[1] = "check_timeout" /\ last_heartbeat = None) => ret = "False"

C2_Witness ==
    /\ op[1] = "check_timeout"
    /\ last_heartbeat = None
    /\ now > TIMEOUT_THRESHOLD + 1
    /\ ret = "False"

\* The monitor's restart_process ran to completion with a supervisor set,
\* called directly or by an iteration of the loop.
MonitorRestarted ==
    /\ op[1] \in {"monitor.restart_process", "tick"}
    /\ Has("restart_process", calls)
    /\ raised = "none"

\* C3: when the monitor's restart_process has completed, the last-heartbeat
\* timestamp is the time of its return, and at that instant the elapsed time
\* does not exceed the threshold.
C3_RestartResetsTimestamp ==
    MonitorRestarted =>
        /\ last_heartbeat = now
        /\ ~(now - last_heartbeat > TIMEOUT_THRESHOLD)

\* A restart made by the loop that had to wait out the whole grace period.
C3_Witness ==
    /\ op[1] = "tick"
    /\ MonitorRestarted
    /\ Has("os.kill(SIGTERM)", calls)
    /\ last_heartbeat = now
    /\ now >= start_time + GRACE_MS

\* C4: restart_process with no stored command (start_process never called)
\* raises ValueError, launches nothing and leaves command and handle absent.
C4_RestartWithoutStart ==
    [][(op'[1] = "restart_process" /\ worker_cmd = NoCmd) =>
          /\ raised' = "ValueError"
          /\ ~Has("Popen", calls')
          /\ procs' = procs
          /\ procs = <<>>
          /\ worker_cmd' = NoCmd
          /\ worker_process = None
          /\ worker_process' = None]_vars

C4_Witness ==
    /\ op[1] = "restart_process"
    /\ raised = "ValueError"
    /\ worker_cmd = NoCmd
    /\ procs = <<>>

\* C5: when restart_process returns, no worker other than the newly launched
\* one is alive; the previously current worker is no longer running.
C5_OnlyNewWorkerAlive ==
    [][(op'[1] = "restart_process" /\ raised' = "none") =>
          /\ Alive(procs') \subseteq {worker_process'}
          /\ worker_process' = Len(procs')
          /\ worker_process # None =>
                 poll(procs', worker_process) # "None"]_vars

\* C6: in every state at most one launched worker is alive, and an alive
\* worker is the current handle.
C6_NoOverlappingWorkers ==
    /\ Cardinality(Alive(procs)) <= 1
    /\ Alive(procs) \subseteq {worker_process}

\* C7: terminate_process on a handle that has already exited only polls it:
\* no signal, no wait, no kill, no exception and no change of state.
C7_TerminateExitedIsNoOp ==
    [][\A p \in Pids(procs) :
          (op'[1] = "terminate_process" /\ op'[2] = p
              /\ poll(procs, p) # "None") =>
             /\ calls' = <<"poll">>
             /\ raised' = "none"
             /\ UNCHANGED <<pmVars, monVars, osVars>>]_vars

C7_Witness ==
    /\ op[1] = "terminate_process"
    /\ poll(procs, op[2]) = "1"
    /\ calls = <<"poll">>

\* The grace-period wait of the last terminate_process expired.
GraceExpired ==
    /\ op[1] = "terminate_process"
    /\ Has("wait(5)", calls)
    /\ Len(calls) > 3

ForcedKills(seq) == Count("kill", seq) + Count("os.kill(SIGKILL)", seq)

\* C8: when the grace period expires, terminate_process attempts exactly one
\* forced kill, and sends no second graceful signal in its place.
C8_ForcedKillOnce ==
    GraceExpired =>
        /\ ForcedKills(calls) = 1
        /\ Count("os.kill(SIGTERM)", calls) = 0

\* C9: when the grace period expires the steps are terminate, wait(5),
\* forced kill, wait(2), and nothing is raised.
C9_SecondBoundedWait ==
    GraceExpired =>
        /\ \E k \in {"kill", "os.kill(SIGKILL)"} :
               calls = <<"poll", "terminate", "wait(5)", k, "wait(2)">>
        /\ raised = "none"

\* C10: terminate_process never raises: an OS-level error of the step taken
\* after the grace period is swallowed.
C10_TerminateNeverRaises ==
    op[1] = "terminate_process" => raised = "none"

\* C11: terminate_process on a running handle that exits within the grace
\* period polls, sends the termination signal once and waits once with the
\* 5-unit bound; no kill step, no second wait, nothing raised.
C11_GracefulExit ==
    [][\A p \in Pids(procs) :
          (op'[1] = "terminate_process" /\ op'[2] = p
              /\ poll(procs, p) = "None" /\ poll(procs', p) # "None"
              /\ now' - now < GRACE_MS) =>
             /\ calls' = <<"poll", "terminate", "wait(5)">>
             /\ raised' = "none"]_vars

C11_Witness ==
    /\ op[1] = "terminate_process"
    /\ poll(procs, op[2]) = "-15"
    /\ calls = <<"poll", "terminate", "wait(5)">>
    /\ raised = "none"

\* An iteration of the loop starts in this state / the session has run out.
InLoop == pc = "loop"
Expired == now - start_time > mon_duration * 1000

\* C12: in an iteration before the duration has run out, a datagram that is
\* available while the timestamp is older than the threshold is read first:
\* the iteration records the heartbeat and makes no restart.
C12_ReadBeforeTimeout ==
    [][(op'[1] = "tick" /\ InLoop /\ ~Expired
           /\ sock = "open" /\ queue > 0
           /\ last_heartbeat # None
           /\ now - last_heartbeat > TIMEOUT_THRESHOLD) =>
          /\ last_heartbeat' = now
          /\ queue' = queue - 1
          /\ ~Has("restart_process", calls')
          /\ procs' = procs
          /\ raised' = "none"]_vars

C12_Witness ==
    /\ op[1] = "tick"
    /\ old_heartbeat # None
    /\ now - old_heartbeat > TIMEOUT_THRESHOLD
    /\ last_heartbeat = now
    /\ calls = <<"recvfrom">>

\* C13: an iteration that finds the elapsed session time strictly above the
\* duration calls shutdown, makes no read, no timeout-driven restart, and
\* ends the loop; any other iteration (elapsed equal to the duration
\* included) starts with the read and, unless it raises, stays in the loop.
C13_DurationEndsLoop ==
    [][(op'[1] = "tick" /\ InLoop) =>
          IF now - start_time > mon_duration * 1000
          THEN /\ calls'[1] = "shutdown_system"
               /\ ~Has("recvfrom", calls')
               /\ ~Has("restart_process", calls')
               /\ ~Has("Popen", calls')
               /\ last_heartbeat' = last_heartbeat
               /\ queue' >= queue
               /\ pc' # "loop"
          ELSE /\ calls'[1] = "recvfrom"
               /\ ~Has("shutdown_system", calls')
               /\ raised' = "none" => pc' = "loop"]_vars

\* The loop ended by duration while a heartbeat timeout was pending.
C13_Witness ==
    /\ op[1] = "tick"
    /\ ret = "break"
    /\ calls = <<"shutdown_system", "poll">>
    /\ now - last_heartbeat > TIMEOUT_THRESHOLD
    /\ pc = "api"

\* terminate_process was entered by shutdown or restart: is_process_running
\* polls the handle once and terminate_process polls it once more.
TerminateEntered(seq) == Count("poll", seq) = 2

\* C14: the iteration that takes the duration branch calls shutdown once and
\* ends the loop; shutdown calls terminate on the current worker exactly when
\* a current worker exists and is running, and otherwise leaves every
\* process alone.
C14_ShutdownOnceAtEnd ==
    [][(op'[1] = "tick" /\ InLoop /\ Expired) =>
          /\ Count("shutdown_system", calls') = 1
          /\ pc' # "loop"
          /\ IF worker_process # None /\ poll(procs, worker_process) = "None"
             THEN TerminateEntered(calls')
             ELSE /\ ~TerminateEntered(calls')
                  /\ ~Has("terminate", calls')
                  /\ procs' = procs
                  /\ now' = now]_vars

C14_Witness ==
    /\ op[1] = "tick"
    /\ ret = "break"
    /\ Count("shutdown_system", calls) = 1
    /\ Has("terminate", calls)
    /\ poll(procs, worker_process) = "-15"
    /\ sessions = 1

\* C15: shutdown_system never raises, and a call that directly follows
\* another makes no termination attempt on a worker that is not running.
C15_ShutdownIdempotent ==
    [][op'[1] = "shutdown_system" =>
          /\ raised' = "none"
          /\ (op[1] = "shutdown_system" /\ ~is_process_running(Cur)) =>
                 ~Has("terminate", calls')]_vars

\* C16: start_monitoring without a supervisor raises ValueError before
\* anything else: no launch, no loop, timestamp and start time stay absent.
C16_StartMonitoringUnwired ==
    [][(op'[1] = "start_monitoring" /\ ~mon_pm) =>
          /\ raised' = "ValueError"
          /\ calls' = <<>>
          /\ procs' = procs
          /\ pc' = "api"
          /\ last_heartbeat' = None
          /\ start_time' = None
          /\ UNCHANGED <<worker_cmd, worker_process, queue, now>>]_vars

C16_Witness ==
    /\ op[1] = "start_monitoring"
    /\ raised = "ValueError"
    /\ ~mon_pm
    /\ procs = <<>>
    /\ last_heartbeat = None
    /\ start_time = None
    /\ pc = "api"

\* C17: the monitor's restart_process without a supervisor does not raise:
\* it logs an error, launches nothing and changes no state.
C17_RestartUnwired ==
    [][(op'[1] = "monitor.restart_process" /\ ~mon_pm) =>
          /\ raised' = "none"
          /\ calls' = <<"logger.error">>
          /\ UNCHANGED <<pmVars, monVars, osVars>>]_vars

C17_Witness ==
    /\ op[1] = "monitor.restart_process"
    /\ ~mon_pm
    /\ calls = <<"logger.error">>
    /\ raised = "none"
    /\ procs = <<>>

\* C18: receive_heartbeat makes one read and takes no time; with a datagram
\* available it consumes that one and stamps the current time, otherwise it
\* leaves queue and timestamp as they were; it never raises.
C18_ReceiveHeartbeat ==
    [][op'[1] = "receive_heartbeat" =>
          /\ calls' = <<"recvfrom">>
          /\ raised' = "none"
          /\ now' = now
          /\ IF sock = "open" /\ queue > 0
             THEN queue' = queue - 1 /\ last_heartbeat' = now
             ELSE queue' = queue /\ last_heartbeat' = last_heartbeat]_vars

\* One of two queued datagrams was consumed and the timestamp moved.
C18_Witness ==
    /\ op[1] = "receive_heartbeat"
    /\ queue = 1
    /\ last_heartbeat = now
    /\ old_heartbeat # None
    /\ old_heartbeat < now

\* C19: start_monitoring stamps the time of the launch, and an iteration
\* restarts only when strictly more than the threshold has passed since the
\* last launch returned (the first launch or the previous restart).
C19_NoPrematureRestart ==
    /\ []((op[1] = "start_monitoring" /\ raised = "none") =>
             (last_heartbeat = now /\ launched_at = now))
    /\ [][(op'[1] = "tick" /\ InLoop /\ Has("restart_process", calls')) =>
             /\ launched_at # None
             /\ now - launched_at > TIMEOUT_THRESHOLD]_vars

\* The second restart of one session.
C19_Witness ==
    /\ op[1] = "tick"
    /\ Has("restart_process", calls)
    /\ raised = "none"
    /\ Len(procs) = 3
    /\ sessions = 1
    /\ pc = "loop"

\* The launch of the replacement itself failed in the last operation.
LaunchFailed == raised = "OSError" /\ calls[Len(calls)] = "Popen"

\* C20: with no heartbeat received since the launch, every iteration before
\* the first one past the threshold makes no restart, and that first one
\* makes exactly one restart, which (unless the launch itself fails) resets
\* the timestamp and replaces the worker.
C20_ScenarioA ==
    /\ []((InLoop /\ op[1] = "tick" /\ Len(procs) = 1
              /\ last_heartbeat = start_time) =>
             now - start_time <= TIMEOUT_THRESHOLD)
    /\ [][(op'[1] = "tick" /\ InLoop /\ ~Expired
              /\ Len(procs) = 1 /\ last_heartbeat = start_time
              /\ queue = 0
              /\ now - start_time > TIMEOUT_THRESHOLD) =>
             /\ Count("restart_process", calls') = 1
             /\ LaunchFailed' \/ /\ raised' = "none"
                                 /\ last_heartbeat' = now'
                                 /\ Len(procs') = 2]_vars

\* C21: an iteration before the end of the session that finds a heartbeat
\* sent since the previous iteration (as a worker sending every 50 ms against
\* the 100 ms tick provides at every iteration) makes no restart.
C21_ScenarioB ==
    [][(op'[1] = "tick" /\ InLoop /\ ~Expired
           /\ last_arrival # None
           /\ now - last_arrival <= TICK_MS) =>
          /\ ~Has("restart_process", calls')
          /\ procs' = procs
          /\ raised' = "none"
          /\ pc' = "loop"]_vars

\* The whole session of 2 s has passed with the first worker, which has just
\* sent and been heard.
C21_Witness ==
    /\ op[1] = "tick"
    /\ pc = "loop"
    /\ Len(procs) = 1
    /\ now - start_time = LoopSeconds * 1000
    /\ last_arrival = now
    /\ last_heartbeat = now

\* The time since which nothing has arrived from the current worker: the
\* later of its launch and the last arrival.
SilentSince == IF last_arrival > launched_at THEN last_arrival ELSE launched_at

\* C22: when nothing has arrived for longer than the threshold, the next
\* iteration restarts the worker: an iteration that finds the silence was
\* already longer than the threshold one tick earlier makes the restart.
C22_BoundedDetection ==
    [][(op'[1] = "tick" /\ InLoop /\ ~Expired
           /\ now - SilentSince > TIMEOUT_THRESHOLD + TICK_MS) =>
          Has("restart_process", calls')]_vars

\* C23: start_system leaves the monitor with the supervisor in the field
\* start_monitoring checks, so its start_monitoring call does not raise the
\* 'supervisor not set' error and the worker is launched.
C23_StartSystemWires ==
    [][op'[1] = "start_system" =>
          /\ mon_pm'
          /\ raised' # "ValueError"
          /\ Has("Popen", calls')]_vars

\* C24: when shutdown_system has returned on a supervisor with a monitor
\* attached, the monitor's heartbeat socket is closed.
C24_ShutdownClosesSocket ==
    (op[1] = "shutdown_system" /\ raised = "none" /\ monitor) =>
        sock = "closed"

\* C25: when shutdown_system has returned, the supervisor holds no worker
\* handle and is_process_running is false.
C25_ShutdownClearsHandle ==
    (op[1] = "shutdown_system" /\ raised = "none") =>
        /\ worker_process = None
        /\ ~is_process_running(Cur)

\* C26: once a command is stored and launched, no start_process or
\* restart_process call changes it (so every restart launches the command of the first launch).
C26_CommandImmutable ==
    [][(op'[1] \in {"start_process", "restart_process"}
           /\ worker_cmd # NoCmd /\ procs # <<>>) =>
          worker_cmd' = worker_cmd]_vars

\* C27: while no launch has succeeded, restart_process raises the
\* invalid-state error and launches nothing, also after a start_process
\* whose launch raised.
C27_RestartNeedsLaunch ==
    [][(op'[1] = "restart_process" /\ procs = <<>>) =>
          /\ raised' = "ValueError"
          /\ ~Has("Popen", calls')
          /\ procs' = procs]_vars

C28_IsProcessRunning ==
    [][op'[1] = "is_process_running" =>
          /\ ret' \in {"True", "False"}
          /\ ret' = "True" =>
                 (worker_process # None
                     /\ procs[worker_process].returncode = "None")
          /\ ret' = "False" =>
                 (worker_process = None
                     \/ procs[worker_process].returncode \in ExitCodes)
          /\ raised' = "none"
          /\ ~Has("wait(5)", calls') /\ Len(calls') <= 1
          /\ UNCHANGED <<worker_process, worker_cmd, procs, now>>]_vars

\* The current worker exited with status 0 and is reported as not running.
C28_Witness ==
    /\ op[1] = "is_process_running"
    /\ ret = "False"
    /\ worker_process # None
    /\ procs[worker_process].returncode = "0"
    /\ calls = <<"poll">>

\* C30: an iteration restarts only on a timeout detected after its read, and
\* the restart (unless the launch of the replacement itself fails) raises
\* nothing and leaves the loop running.
C30_RestartReturnsToWatching ==
    [][(op'[1] = "tick" /\ InLoop /\ Has("restart_process", calls')) =>
          /\ ~Expired
          /\ queue = 0
          /\ check_timeout(last_heartbeat, now)
          /\ LaunchFailed' \/ (raised' = "none" /\ pc' = "loop")]_vars

\* The timeout test of an iteration, made after its read: the read refreshes
\* the timestamp exactly when a datagram is available.
TimeoutAfterRead ==
    IF sock = "open" /\ queue > 0 THEN FALSE
    ELSE last_heartbeat # None /\ now - last_heartbeat > TIMEOUT_THRESHOLD

\* C33: an iteration before the end of the session calls the supervisor's
\* restart once when the timeout test is true and not at all when it is
\* false, whatever the state of the worker process.
C33_RestartIffTimeout ==
    [][(op'[1] = "tick" /\ InLoop /\ ~Expired) =>
          Count("restart_process", calls') =
              (IF TimeoutAfterRead THEN 1 ELSE 0)]_vars

\* The worker has exited, the timestamp is fresh: no restart.
C33_Witness ==
    /\ op[1] = "tick"
    /\ pc = "loop"
    /\ worker_process # None
    /\ poll(procs, worker_process) = "1"
    /\ calls = <<"recvfrom">>
    /\ last_heartbeat < now

\* C35: the receive step of an iteration leaves no datagram unread (an
\* iteration that makes no restart takes no time, so what is queued after
\* it had arrived before it).
C35_TickDrains ==
    [][(op'[1] = "tick" /\ InLoop /\ ~Expired
           /\ ~Has("restart_process", calls')) =>
          queue' = 0]_vars

\* C34: restart_process with a stored command enters terminate_process
\* exactly when a handle exists and is running, and before the launch; then
\* (unless the launch itself fails) one new process is launched and is the
\* current handle.
C34_TerminateBeforeLaunch ==
    [][(op'[1] = "restart_process" /\ worker_cmd # NoCmd) =>
          /\ TerminateEntered(calls') = is_process_running(Cur)
          /\ LaunchFailed' \/ /\ raised' = "none"
                              /\ calls'[Len(calls')] = "Popen"
                              /\ Count("Popen", calls') = 1
                              /\ Len(procs') = Len(procs) + 1
                              /\ worker_process' = Len(procs')]_vars

\* C32: terminate_process makes at most two bounded waits and returns
\* within their sum, and a session leaves its loop only through the
\* duration branch (or because the launch of a replacement failed).
C32_SessionReachesDuration ==
    /\ [][op'[1] = "terminate_process" =>
             /\ now' - now <= GRACE_MS + 2000
             /\ Count("wait(5)", calls') + Count("wait(2)", calls') <= 2]_vars
    /\ [][(op'[1] = "tick" /\ InLoop /\ pc' # "loop") =>
             (ret' = "break" \/ LaunchFailed')]_vars

\* The monitor's restart_process called the supervisor in the last operation.
SupervisorRestart == Has("restart_process", calls)

\* C36: a restart removes nothing from the channel, and a datagram that was
\* queued when the restart returned is read by the next receive like any
\* other: it is consumed and the timestamp becomes the time of the read.
C36_RestartKeepsQueue ==
    /\ [][SupervisorRestart' => queue' >= queue]_vars
    /\ [][(op'[1] = "receive_heartbeat"
              /\ op[1] = "monitor.restart_process" /\ SupervisorRestart
              /\ raised = "none" /\ queue > 0 /\ sock = "open") =>
             /\ last_heartbeat' = now
             /\ queue' = queue - 1]_vars

\* A restart that terminated the old worker has returned with the channel
\* full.
C36_Witness ==
    /\ op[1] = "monitor.restart_process"
    /\ SupervisorRestart
    /\ raised = "none"
    /\ Has("terminate", calls)
    /\ queue = MaxQueue
    /\ old_heartbeat # None
    /\ last_heartbeat = now

\* C37: when the supervisor's restart raises, the monitor's timestamp keeps
\* its value, the error is the result of the operation, the loop (if the
\* restart came from an iteration) has stopped, and shutdown was not called.
C37_RestartErrorPropagates ==
    [][(op'[1] \in {"monitor.restart_process", "tick"}
           /\ SupervisorRestart' /\ raised' # "none") =>
          /\ last_heartbeat' = last_heartbeat
          /\ ~Has("shutdown_system", calls')
          /\ pc' = "api"]_vars

\* An iteration's restart failed at the launch of the replacement.
C37_Witness ==
    /\ op[1] = "tick"
    /\ SupervisorRestart
    /\ LaunchFailed
    /\ pc = "api"
    /\ last_heartbeat = old_heartbeat
    /\ now - last_heartbeat > TIMEOUT_THRESHOLD

\* C38: a timestamp that is set is never cleared; when it changes, it
\* becomes the time the operation returns at; it never decreases; and
\* check_timeout leaves it alone.
C38_TimestampMonotone ==
    [][/\ last_heartbeat # None => last_heartbeat' # None
       /\ last_heartbeat' # last_heartbeat => last_heartbeat' = now'
       /\ last_heartbeat' >= last_heartbeat
       /\ op'[1] = "check_timeout" => last_heartbeat' = last_heartbeat]_vars

\* check_timeout ran on a set timestamp that a restart had assigned.
C38_Witness ==
    /\ op[1] = "check_timeout"
    /\ last_heartbeat # None
    /\ last_heartbeat = old_heartbeat
    /\ last_heartbeat = launched_at
    /\ Len(procs) >= 2

\* C39: the constructor stores a non-zero duration as given and stores the
\* default, 60, for a duration of 0: the stored duration is never 0.
C39_ZeroDurationReplaced ==
    [][op'[1] = "HeartbeatMonitor" =>
          /\ op'[2] # 0 => mon_duration' = op'[2]
          /\ op'[2] = 0 => mon_duration' = 60
          /\ mon_duration' # 0]_vars

C39_Witness ==
    /\ op[1] = "HeartbeatMonitor"
    /\ op[2] = 0
    /\ mon_duration = 60
    /\ sock = "open"

\* Nothing that launches a worker or belongs to an iteration follows the
\* start of shutdown within the operation.
NothingAfterShutdown(seq) ==
    \A i, j \in 1..Len(seq) :
        (seq[i] = "shutdown_system" /\ j > i) =>
            seq[j] \notin {"Popen", "restart_process", "recvfrom",
                           "shutdown_system"}

\* C31 as stated: the shutdown routine runs for no other cause than the
\* elapsed duration (the error exit of the entry point, C29, left aside).
C31_ShutdownOnlyAtDuration ==
    [][(Has("shutdown_system", calls') /\ ret' # "exit(1)") =>
          (op'[1] = "tick" /\ InLoop /\ Expired)]_vars

\* C31 as amended: in the loop, shutdown runs only in the iteration that
\* finds the duration elapsed; outside it only in the entry point, on an
\* interrupt or an error of start_system.  Once shutdown has started no
\* worker is launched and no iteration runs: the program has left the loop
\* for good.
C31_ShutdownTerminal ==
    /\ [][Has("shutdown_system", calls') =>
             /\ (op'[1] = "tick" /\ InLoop /\ Expired) \/ op'[1] = "main"
             /\ NothingAfterShutdown(calls')
             /\ pc' \in {"api", "exited"}]_vars
    /\ [][(pc = "api" \/ pc = "exited") =>
             /\ pc' = pc
             /\ Len(procs') = Len(procs)
             /\ op'[1] = "env"]_vars

\* A session that restarted its worker has ended by duration.
C31_Witness ==
    /\ op[1] = "tick"
    /\ Has("shutdown_system", calls)
    /\ pc = "api"
    /\ Len(procs) = 2
    /\ now - start_time > mon_duration * 1000
    /\ sessions = 1

====
